---- MODULE Spec2Model ----
(***************************************************************************)
(* Vivi: the behaviour analyzer, the feedback engine and the engine loop   *)
(* (src/src/core/ai/analyzer.py, src/src/core/ai/feedback_engine.py,       *)
(* src/src/core/vivi_engine.py, src/src/core/monitors/input_monitor.py).   *)
(*                                                                         *)
(* Python dicts are functions whose DOMAIN is the set of keys present, so  *)
(* d.get(k, default) and d.update(e) keep their meaning.  An absent sample *)
(* (None) and an empty dict are both the empty function: the code only     *)
(* tests them for truthiness.  Wall-clock timestamps of records are left   *)
(* out: no decision of the code reads them.                                *)
(***************************************************************************)
EXTENDS Integers, Sequences, FiniteSets, TLC

(***************************************************************************)
(* Bounds of the model.                                                    *)
(***************************************************************************)
\* effective start() calls explored (each may spawn one worker thread)
MaxStarts == 2
\* feedback records the environment lets the workers generate
MaxFeedback == 2

(***************************************************************************)
(* Python floats.  Every float the analyzer touches is a multiple of 2^-56 *)
(* of magnitude below 2; a float is the record [neg, hi, lo] standing for  *)
(* (+/-)(hi * 2^28 + lo) * 2^-56.  FAdd adds exactly and rounds to 53      *)
(* significant bits, ties to even, as IEEE-754 binary64 does.              *)
(***************************************************************************)
Limb == 2^28

Mag(hi, lo) == [hi |-> hi, lo |-> lo]

MagLess(a, b) == a.hi < b.hi \/ (a.hi = b.hi /\ a.lo < b.lo)

MagAdd(a, b) ==
    LET lo == a.lo + b.lo
    IN  Mag(a.hi + b.hi + (lo \div Limb), lo % Limb)

\* a - b for a >= b
MagSub(a, b) ==
    IF a.lo >= b.lo THEN Mag(a.hi - b.hi, a.lo - b.lo)
                    ELSE Mag(a.hi - b.hi - 1, a.lo + Limb - b.lo)

\* spacing of the doubles around a magnitude, in units of 2^-56
Ulp(m) ==
    IF m.hi >= Limb THEN 16
    ELSE IF m.hi >= Limb \div 2 THEN 8
    ELSE IF m.hi >= Limb \div 4 THEN 4
    ELSE IF m.hi >= Limb \div 8 THEN 2
    ELSE 1

\* round to nearest double, ties to even
MagRound(m) ==
    LET q    == Ulp(m)
        r    == m.lo % q
        down == Mag(m.hi, m.lo - r)
        up   == MagAdd(down, Mag(0, q))
        even == ((down.lo \div q) % 2) = 0
    IN  IF r = 0 THEN m
        ELSE IF 2 * r < q THEN down
        ELSE IF 2 * r > q THEN up
        ELSE IF even THEN down ELSE up

Float(neg, m) == [neg |-> neg /\ (m.hi # 0 \/ m.lo # 0), hi |-> m.hi, lo |-> m.lo]

MagOf(x) == Mag(x.hi, x.lo)

FNeg(x) == Float(~x.neg, MagOf(x))

FAdd(x, y) ==
    IF x.neg = y.neg THEN Float(x.neg, MagRound(MagAdd(MagOf(x), MagOf(y))))
    ELSE IF MagLess(MagOf(x), MagOf(y))
         THEN Float(y.neg, MagRound(MagSub(MagOf(y), MagOf(x))))
         ELSE Float(x.neg, MagRound(MagSub(MagOf(x), MagOf(y))))

FSub(x, y) == FAdd(x, FNeg(y))

FLess(x, y) ==
    IF x.neg /\ ~y.neg THEN TRUE
    ELSE IF ~x.neg /\ y.neg THEN FALSE
    ELSE IF x.neg THEN MagLess(MagOf(y), MagOf(x))
    ELSE MagLess(MagOf(x), MagOf(y))

\* Python's min(a, b) and max(a, b): the first argument wins a tie
FMin(a, b) == IF FLess(b, a) THEN b ELSE a

FMax(a, b) == IF FLess(a, b) THEN b ELSE a

\* the float literals of the source, each the double nearest the decimal
F0_0 == [neg |-> FALSE, hi |-> 0, lo |-> 0]

F0_1 == [neg |-> FALSE, hi |-> 26843545, lo |-> 161061274]

F0_2 == [neg |-> FALSE, hi |-> 53687091, lo |-> 53687092]

F0_3 == [neg |-> FALSE, hi |-> 80530636, lo |-> 214748364]

F0_4 == [neg |-> FALSE, hi |-> 107374182, lo |-> 107374184]

F0_5 == [neg |-> FALSE, hi |-> 134217728, lo |-> 0]

F1_0 == [neg |-> FALSE, hi |-> 268435456, lo |-> 0]

(***************************************************************************)
(* Python strings are sequences of one-character strings.                  *)
(***************************************************************************)
UpperCase == <<"A", "B", "C", "D", "E", "F", "G", "H", "I", "J", "K", "L", "M", "N", "O", "P", "Q", "R", "S", "T", "U", "V", "W", "X", "Y", "Z">>

LowerCase == <<"a", "b", "c", "d", "e", "f", "g", "h", "i", "j", "k", "l", "m", "n", "o", "p", "q", "r", "s", "t", "u", "v", "w", "x", "y", "z">>

LowerChar(c) ==
    IF \E i \in 1..26 : UpperCase[i] = c
    THEN LowerCase[CHOOSE i \in 1..26 : UpperCase[i] = c]
    ELSE c

\* str.lower()
Lower(s) == [i \in 1..Len(s) |-> LowerChar(s[i])]

\* keyword in s
Contains(keyword, s) ==
    \E i \in 0..(Len(s) - Len(keyword)) :
        SubSeq(s, i + 1, i + Len(keyword)) = keyword

\* a name psutil could not read (None); no string has a four-letter element
NoneStr == <<"None">>

(***************************************************************************)
(* dict helpers                                                            *)
(***************************************************************************)
Has(d, k) == k \in DOMAIN d

Get(d, k, default) == IF k \in DOMAIN d THEN d[k] ELSE default

\* truthiness of d.get(k) for a boolean-valued key
Flag(d, k) == k \in DOMAIN d /\ d[k] = TRUE

\* truthiness of a dict or list value: None, {} and [] are falsy
Truthy(v) == DOMAIN v # {}

\* d.update(e)
Update(d, e) == e @@ d

\* {} and, for a sample, None
EmptyDict == [k \in {} |-> TRUE]

\* the dict {k: v}
Entry(k, v) == [x \in {k} |-> v]


(***************************************************************************)
(* BehaviorAnalyzer (src/src/core/ai/analyzer.py)                          *)
(***************************************************************************)
distraction_keywords ==
    << <<"y", "o", "u", "t", "u", "b", "e">>,
       <<"f", "a", "c", "e", "b", "o", "o", "k">>,
       <<"t", "w", "i", "t", "t", "e", "r">>,
       <<"i", "n", "s", "t", "a", "g", "r", "a", "m">>,
       <<"t", "i", "k", "t", "o", "k">>,
       <<"r", "e", "d", "d", "i", "t">>,
       <<"n", "e", "t", "f", "l", "i", "x">>,
       <<"g", "a", "m", "i", "n", "g">>,
       <<"g", "a", "m", "e">>,
       <<"e", "n", "t", "e", "r", "t", "a", "i", "n", "m", "e", "n", "t">> >>

productivity_keywords ==
    << <<"c", "o", "d", "e">>,
       <<"p", "r", "o", "g", "r", "a", "m", "m", "i", "n", "g">>,
       <<"w", "o", "r", "k">>,
       <<"d", "o", "c", "u", "m", "e", "n", "t">>,
       <<"e", "m", "a", "i", "l">>,
       <<"m", "e", "e", "t", "i", "n", "g">>,
       <<"p", "r", "o", "j", "e", "c", "t">>,
       <<"t", "a", "s", "k">>,
       <<"d", "e", "v", "e", "l", "o", "p", "m", "e", "n", "t">> >>

\* any(keyword in s for keyword in keywords)
AnyKeywordIn(keywords, s) ==
    \E i \in 1..Len(keywords) : Contains(keywords[i], s)

\* brightness assumed when the screen sample carries none
DefaultBrightness == 128

\* a screen darker than this counts as dark
DarkThreshold == 50

\* as _analyze_screen_data, with brightness <= 50 counted as dark
_analyze_screen_data_le(screen_data) ==
    LET analysis   == Get(screen_data, "analysis", EmptyDict)
        is_static  == ~Get(analysis, "change_detected", TRUE)
        brightness == Get(analysis, "brightness", DefaultBrightness)
        is_dark    == brightness <= DarkThreshold
    IN  [screen_static |-> is_static,
         screen_dark |-> is_dark,
         screen_brightness |-> brightness]

_analyze_screen_data(screen_data) ==
    LET analysis   == Get(screen_data, "analysis", EmptyDict)
        is_static  == ~Get(analysis, "change_detected", TRUE)
        brightness == Get(analysis, "brightness", DefaultBrightness)
        is_dark    == brightness < DarkThreshold
    IN  [screen_static |-> is_static,
         screen_dark |-> is_dark,
         screen_brightness |-> brightness]

\* p['name'].lower() raises AttributeError for a process whose name is None
ProcessDataRaises(processes) ==
    \E i \in 1..Len(processes) : processes[i].name = NoneStr

_analyze_process_data(processes) ==
    LET process_names == [i \in 1..Len(processes) |-> Lower(processes[i].name)]
        distraction_count ==
            Cardinality({i \in 1..Len(processes) :
                            AnyKeywordIn(distraction_keywords, process_names[i])})
        productivity_count ==
            Cardinality({i \in 1..Len(processes) :
                            AnyKeywordIn(productivity_keywords, process_names[i])})
    IN  [distraction_processes |-> distraction_count,
         productivity_processes |-> productivity_count,
         total_processes |-> Len(processes)]

\* _analyze_window_data; first without the .lower() calls
_analyze_window_data_nolower(window_data) ==
    LET window_title == Get(window_data, "title", <<>>)
        process_name == Get(window_data, "process_name", <<>>)
        distraction_detected ==
            \E i \in 1..Len(distraction_keywords) :
                \/ Contains(distraction_keywords[i], window_title)
                \/ Contains(distraction_keywords[i], process_name)
        productivity_detected ==
            \E i \in 1..Len(productivity_keywords) :
                \/ Contains(productivity_keywords[i], window_title)
                \/ Contains(productivity_keywords[i], process_name)
    IN  [distraction_detected |-> distraction_detected,
         productivity_detected |-> productivity_detected,
         active_window |-> window_title,
         active_process |-> process_name]

_analyze_window_data(window_data) ==
    LET window_title == Lower(Get(window_data, "title", <<>>))
        process_name == Lower(Get(window_data, "process_name", <<>>))
        distraction_detected ==
            \E i \in 1..Len(distraction_keywords) :
                \/ Contains(distraction_keywords[i], window_title)
                \/ Contains(distraction_keywords[i], process_name)
        productivity_detected ==
            \E i \in 1..Len(productivity_keywords) :
                \/ Contains(productivity_keywords[i], window_title)
                \/ Contains(productivity_keywords[i], process_name)
    IN  [distraction_detected |-> distraction_detected,
         productivity_detected |-> productivity_detected,
         active_window |-> window_title,
         active_process |-> process_name]

\* timestamps are integer milliseconds; one second of them
Second == 1000

\* typing rates above this many key events per second are rapid
RapidRate == 5

KeyTypes == {"key_press", "key_release"}

\* typing_rate is the quotient num / den (events per millisecond span),
\* kept exact: [num, den] stands for num * Second / den events per second;
\* first with an empty list reported as activity
_analyze_input_data_active(input_data) ==
    IF Len(input_data) = 0
    THEN [input_active |-> TRUE, typing_rate |-> [num |-> 0, den |-> Second]]
    ELSE LET key_events == SelectSeq(input_data, LAMBDA e : e.type \in KeyTypes)
             time_span  == IF Len(input_data) > 1
                           THEN input_data[Len(input_data)].timestamp
                                    - input_data[1].timestamp
                           ELSE Second
             den        == IF time_span > Second THEN time_span ELSE Second
             rapid_typing == Len(key_events) * Second > RapidRate * den
         IN  [input_active |-> Len(input_data) > 0,
              typing_rate |-> [num |-> Len(key_events), den |-> den],
              rapid_typing |-> rapid_typing,
              total_input_events |-> Len(input_data)]

_analyze_input_data(input_data) ==
    IF Len(input_data) = 0
    THEN [input_active |-> FALSE, typing_rate |-> [num |-> 0, den |-> Second]]
    ELSE LET key_events == SelectSeq(input_data, LAMBDA e : e.type \in KeyTypes)
             time_span  == IF Len(input_data) > 1
                           THEN input_data[Len(input_data)].timestamp
                                    - input_data[1].timestamp
                           ELSE Second
             den        == IF time_span > Second THEN time_span ELSE Second
             rapid_typing == Len(key_events) * Second > RapidRate * den
         IN  [input_active |-> Len(input_data) > 0,
              typing_rate |-> [num |-> Len(key_events), den |-> den],
              rapid_typing |-> rapid_typing,
              total_input_events |-> Len(input_data)]

\* if cond: score += x
AddIf(cond, score, x) == IF cond THEN FAdd(score, x) ELSE score

\* if cond: score -= x
SubIf(cond, score, x) == IF cond THEN FSub(score, x) ELSE score

\* as _calculate_focus_score, with a distraction costing 0.3 instead of 0.4
_calculate_focus_score_weak(analysis) ==
    LET s0 == F0_5
        s1 == AddIf(Flag(analysis, "productivity_detected"), s0, F0_3)
        s2 == AddIf(Flag(analysis, "input_active"), s1, F0_2)
        s3 == AddIf(~Flag(analysis, "screen_static"), s2, F0_1)
        s4 == SubIf(Flag(analysis, "distraction_detected"), s3, F0_3)
        s5 == SubIf(Flag(analysis, "screen_dark"), s4, F0_2)
        s6 == SubIf(Flag(analysis, "screen_static"), s5, F0_1)
    IN  FMax(F0_0, FMin(F1_0, s6))

_calculate_focus_score(analysis) ==
    LET s0 == F0_5
        s1 == AddIf(Flag(analysis, "productivity_detected"), s0, F0_3)
        s2 == AddIf(Flag(analysis, "input_active"), s1, F0_2)
        s3 == AddIf(~Flag(analysis, "screen_static"), s2, F0_1)
        s4 == SubIf(Flag(analysis, "distraction_detected"), s3, F0_4)
        s5 == SubIf(Flag(analysis, "screen_dark"), s4, F0_2)
        s6 == SubIf(Flag(analysis, "screen_static"), s5, F0_1)
    IN  FMax(F0_0, FMin(F1_0, s6))

\* as _should_provide_feedback, without the inactivity rule
_should_provide_feedback_noidle(analysis) ==
    IF FLess(Get(analysis, "focus_score", F0_5), F0_3) THEN TRUE
    ELSE IF Flag(analysis, "distraction_detected") THEN TRUE
    ELSE FALSE

_should_provide_feedback(analysis) ==
    IF FLess(Get(analysis, "focus_score", F0_5), F0_3) THEN TRUE
    ELSE IF Flag(analysis, "distraction_detected") THEN TRUE
    ELSE IF Flag(analysis, "screen_static") /\ ~Flag(analysis, "input_active") THEN TRUE
    ELSE FALSE

\* analyze() raises exactly when the process analysis does
AnalyzeRaises(data) ==
    Has(data, "processes") /\ ProcessDataRaises(data.processes)

\* if cond: analysis.update(e)
UpdateIf(cond, d, e) == IF cond THEN Update(d, e) ELSE d

\* analysis['focus_score'] = self._calculate_focus_score(analysis)
SetFocusScore(a) == [a EXCEPT !.focus_score = _calculate_focus_score(a)]

\* analysis['needs_feedback'] = self._should_provide_feedback(analysis)
SetNeedsFeedback(a) == [a EXCEPT !.needs_feedback = _should_provide_feedback(a)]

\* analyze(data) for a bundle on which it does not raise
analyze(data) ==
    LET a0 == [needs_feedback |-> FALSE,
               distraction_detected |-> FALSE,
               productivity_detected |-> FALSE,
               focus_score |-> F0_0,
               recommendations |-> <<>>]
        a1 == UpdateIf(Has(data, "screen") /\ Truthy(data.screen),
                       a0, _analyze_screen_data(data.screen))
        a2 == UpdateIf(Has(data, "processes"),
                       a1, _analyze_process_data(data.processes))
        a3 == UpdateIf(Has(data, "window") /\ Truthy(data.window),
                       a2, _analyze_window_data(data.window))
        a4 == UpdateIf(Has(data, "input"),
                       a3, _analyze_input_data(data.input))
    IN  SetNeedsFeedback(SetFocusScore(a4))

(***************************************************************************)
(* FeedbackEngine (src/src/core/ai/feedback_engine.py)                     *)
(***************************************************************************)
max_history == 100

\* every message list holds this many messages
MessagesPerType == 4

\* as _determine_feedback_type, with the focus test ahead of the
\* distraction test
_determine_feedback_type_focusfirst(analysis) ==
    IF FLess(Get(analysis, "focus_score", F0_5), F0_3) THEN "focus_reminder"
    ELSE IF Flag(analysis, "distraction_detected") THEN "distraction_alert"
    ELSE IF Flag(analysis, "screen_static") /\ ~Flag(analysis, "input_active")
         THEN "inactivity_reminder"
    ELSE IF Flag(analysis, "rapid_typing") THEN "stress_alert"
    ELSE "general_encouragement"

_determine_feedback_type(analysis) ==
    IF Flag(analysis, "distraction_detected") THEN "distraction_alert"
    ELSE IF FLess(Get(analysis, "focus_score", F0_5), F0_3) THEN "focus_reminder"
    ELSE IF Flag(analysis, "screen_static") /\ ~Flag(analysis, "input_active")
         THEN "inactivity_reminder"
    ELSE IF Flag(analysis, "rapid_typing") THEN "stress_alert"
    ELSE "general_encouragement"

\* as _determine_priority, with focus_score <= 0.2 counted as high
_determine_priority_le(analysis) ==
    IF Flag(analysis, "distraction_detected") THEN "high"
    ELSE IF ~FLess(F0_2, Get(analysis, "focus_score", F0_5)) THEN "high"
    ELSE IF Flag(analysis, "rapid_typing") THEN "medium"
    ELSE "low"

_determine_priority(analysis) ==
    IF Flag(analysis, "distraction_detected") THEN "high"
    ELSE IF FLess(Get(analysis, "focus_score", F0_5), F0_2) THEN "high"
    ELSE IF Flag(analysis, "rapid_typing") THEN "medium"
    ELSE "low"

\* the record generate_feedback() builds; choice is the index random.choice
\* draws from the message list of the type
FeedbackRecord(analysis, choice) ==
    [type |-> _determine_feedback_type(analysis),
     message |-> <<_determine_feedback_type(analysis), choice>>,
     priority |-> _determine_priority(analysis),
     analysis |-> analysis]

\* feedback_history after generate_feedback() stored the record; first as
\* a history that drops its newest record, pop() for pop(0)
StoreFeedback_newest(history, record) ==
    IF Len(history) + 1 > max_history
    THEN SubSeq(Append(history, record), 1, Len(history))
    ELSE Append(history, record)

StoreFeedback(history, record) ==
    IF Len(history) + 1 > max_history
    THEN Tail(Append(history, record))
    ELSE Append(history, record)


(***************************************************************************)
(* Samples the monitors can hand to the engine loop                        *)
(* (ViviEngine._collect_data, src/src/core/vivi_engine.py).                *)
(***************************************************************************)
TitleYouTube == <<"Y", "o", "u", "T", "u", "b", "e", " ", "-", " ", "C", "h", "r", "o", "m", "e">>

TitleVSCode == <<"V", "i", "s", "u", "a", "l", " ", "S", "t", "u", "d", "i", "o", " ", "C", "o", "d", "e">>

TitleNotepad == <<"U", "n", "t", "i", "t", "l", "e", "d", " ", "-", " ", "N", "o", "t", "e", "p", "a", "d">>

TitleGameDev == <<"G", "a", "m", "e", " ", "D", "e", "v", "e", "l", "o", "p", "m", "e", "n", "t">>

NameChrome == <<"c", "h", "r", "o", "m", "e", ".", "e", "x", "e">>

NameCode == <<"c", "o", "d", "e", ".", "e", "x", "e">>

NameNotepad == <<"n", "o", "t", "e", "p", "a", "d", ".", "e", "x", "e">>

NameUnity == <<"U", "n", "i", "t", "y", ".", "e", "x", "e">>

BrightnessSamples == {0, 49, 50, 51, 255}

\* capture_screen(): None, or a sample carrying its analysis; the last
\* sample carries no analysis at all, which only a hand-made bundle does
ScreenSamples ==
    {EmptyDict}
        \cup {[analysis |-> [brightness |-> b, change_detected |-> c]] :
                b \in BrightnessSamples, c \in BOOLEAN}
        \cup {[analysis |-> EmptyDict]}

\* get_active_window(): None, or the foreground window
WindowSamples ==
    {EmptyDict,
     [title |-> TitleYouTube, process_name |-> NameChrome],
     [title |-> TitleVSCode, process_name |-> NameCode],
     [title |-> TitleNotepad, process_name |-> NameNotepad],
     [title |-> TitleGameDev, process_name |-> NameUnity]}

\* get_active_processes()
ProcessSamples ==
    {<<>>,
     <<[name |-> NameCode, pid |-> 1234], [name |-> NameChrome, pid |-> 5678]>>,
     <<[name |-> NameCode, pid |-> 1234], [name |-> NoneStr, pid |-> 4]>>}

\* get_recent_input(): nothing, one key press, six key events within half a
\* second, two mouse moves
InputSamples ==
    {<<>>,
     <<[type |-> "key_press", timestamp |-> 0]>>,
     [i \in 1..6 |-> [type |-> IF i % 2 = 1 THEN "key_press" ELSE "key_release",
                      timestamp |-> 100 * (i - 1)]],
     <<[type |-> "mouse_move", timestamp |-> 0, x |-> 0, y |-> 0],
       [type |-> "mouse_move", timestamp |-> 2500, x |-> 40, y |-> 0]>>}

Bundles ==
    {[screen |-> sc, processes |-> pr, window |-> wi, input |-> inp] :
        sc \in ScreenSamples, pr \in ProcessSamples,
        wi \in WindowSamples, inp \in InputSamples}

(***************************************************************************)
(* State                                                                   *)
(***************************************************************************)
VARIABLES
    mock_data,          \* the bundle handed to analyze()
    mock_analysis,      \* the analysis record: what analyze() returned, or
                        \* the hand-made record handed to generate_feedback()
    feedback,           \* the record generate_feedback() returned last
    feedback_history,   \* FeedbackEngine.feedback_history
    last,               \* the operation that ran last
    running,            \* ViviEngine.running
    thread,             \* ViviEngine.thread: NoThread or the worker it names
    pc,                 \* where each worker thread is in _main_loop
    is_monitoring,      \* InputMonitor.is_monitoring
    keyboard_listener,  \* InputMonitor.keyboard_listener
    mouse_listener,     \* InputMonitor.mouse_listener
    emitted,            \* the records feedback_generated has emitted, in order
    starts,             \* start() calls that found the engine not running
    post_stop,          \* records emitted since stop() with no start() since
    input_history,      \* InputMonitor.input_history, oldest event first
    now,                \* the last reading of time.time(), in milliseconds
    recent_input,       \* what get_recent_input() returned last
    cursor,             \* the arguments of the last _on_mouse_move callback
    scan,               \* the poller's scan inside get_recent_input()
    move_pending,       \* a mouse move that passed the throttle test and
                        \* has not been appended yet
    calls,              \* calls made so far to the monitor under study
    user_tasks,         \* ViviEngine.user_tasks
    returned,           \* the list get_tasks() returned last, in the
                        \* caller's hands
    produced,           \* every record generate_feedback() built, in order
    last_processes,     \* ProcessMonitor.last_processes, in insertion order
    process_changes,    \* what get_process_changes() returned last
    screenshot_history, \* ScreenMonitor.screenshot_history, oldest first
    last_screenshot,    \* ScreenMonitor.last_screenshot
    screen_result,      \* what capture_screen() returned last
    captured,           \* every frame a capture appended, in order
    history_result      \* what get_feedback_history() returned last

engine_vars ==
    <<running, thread, pc, is_monitoring, keyboard_listener, mouse_listener,
      emitted, starts, post_stop>>

input_vars ==
    <<input_history, now, recent_input, cursor, scan, move_pending, calls>>

task_vars == <<user_tasks, returned>>

process_vars == <<last_processes, process_changes>>

screen_vars ==
    <<screenshot_history, last_screenshot, screen_result, captured>>

\* the state of the monitors, the task list and the generation log
monitor_vars ==
    <<input_vars, task_vars, process_vars, screen_vars, produced,
      history_result>>

\* what the analyzer, the feedback engine and the engine loop own
core_vars ==
    <<mock_data, mock_analysis, feedback, feedback_history, engine_vars>>

vars ==
    <<mock_data, mock_analysis, feedback, feedback_history, last, running, thread, pc,
      is_monitoring, keyboard_listener, mouse_listener, emitted, starts,
      post_stop, monitor_vars>>

\* self.thread = None
NoThread == 0

\* the threads start() can spawn
Workers == 1..MaxStarts

\* ViviEngine.__init__ and InputMonitor.__init__
InitEngine ==
    /\ running = FALSE
    /\ thread = NoThread
    /\ pc = [w \in Workers |-> "unborn"]
    /\ is_monitoring = FALSE
    /\ keyboard_listener = "None"
    /\ mouse_listener = "None"
    /\ emitted = <<>>
    /\ starts = 0
    /\ post_stop = 0

(***************************************************************************)
(* InputMonitor (src/src/core/monitors/input_monitor.py).  An event is the *)
(* dict _add_input_event builds, without its description: no code reads    *)
(* it.  Timestamps are readings of time.time() in milliseconds.            *)
(***************************************************************************)
\* InputMonitor(max_history = 1000), as ViviEngine.__init__ builds it
input_max_history == 1000

\* deque(maxlen = maxlen).append(e); first as a deque without maxlen
DequeAppend_unbounded(dq, e, maxlen) == Append(dq, e)

DequeAppend(dq, e, maxlen) ==
    IF Len(dq) >= maxlen THEN Append(Tail(dq), e) ELSE Append(dq, e)

\* _add_input_event(event_type, description, **kwargs) when time.time()
\* reads t
_add_input_event(dq, event_type, t, kwargs) ==
    DequeAppend(dq, Update([type |-> event_type, timestamp |-> t], kwargs),
                input_max_history)

Abs(n) == IF n < 0 THEN -n ELSE n

MoveThreshold == 10

\* the test of _on_mouse_move
SignificantMove(dq, x, y) ==
    \/ Len(dq) = 0
    \/ Abs(x - Get(dq[Len(dq)], "x", 0)) > MoveThreshold
    \/ Abs(y - Get(dq[Len(dq)], "y", 0)) > MoveThreshold

\* get_recent_input(seconds) when time.time() reads t; first with > in
\* place of >=
get_recent_input_strict(dq, t, seconds) ==
    LET cutoff_time == t - seconds * Second
        Recent(event) == event.timestamp > cutoff_time
    IN  SelectSeq(dq, Recent)

get_recent_input(dq, t, seconds) ==
    LET cutoff_time == t - seconds * Second
        Recent(event) == event.timestamp >= cutoff_time
    IN  SelectSeq(dq, Recent)

\* no call yet, no scan in progress, no move in flight
NoResult == [status |-> "none"]

NoScan == [status |-> "idle"]

\* InputMonitor.__init__
InitInputMonitor ==
    /\ input_history = <<>>
    /\ now = 0
    /\ recent_input = NoResult
    /\ cursor = NoResult
    /\ scan = NoScan
    /\ move_pending = NoResult
    /\ calls = 0

\* ViviEngine.__init__: self.user_tasks = []
InitTasks ==
    /\ user_tasks = <<>>
    /\ returned = NoResult

\* ProcessMonitor.__init__: self.last_processes = {}
InitProcessMonitor ==
    /\ last_processes = <<>>
    /\ process_changes = NoResult

\* self.last_screenshot = None
NoFrame == [shape |-> <<>>, pixels |-> <<>>]

\* ScreenMonitor.__init__
InitScreenMonitor ==
    /\ screenshot_history = <<>>
    /\ last_screenshot = NoFrame
    /\ screen_result = NoResult
    /\ captured = <<>>

\* the monitors, the task list and the generation log after construction
InitMonitors ==
    /\ InitInputMonitor
    /\ InitTasks
    /\ InitProcessMonitor
    /\ InitScreenMonitor
    /\ produced = <<>>
    /\ history_result = NoResult


(***************************************************************************)
(* The analyzer on its own: analyze() applied to a bundle.                 *)
(***************************************************************************)
InitAnalyzer ==
    /\ mock_data \in Bundles
    /\ mock_analysis = EmptyDict
    /\ feedback = EmptyDict
    /\ feedback_history = <<>>
    /\ last = "init"
    /\ InitEngine
    /\ InitMonitors

Analyze ==
    /\ last = "init"
    /\ ~AnalyzeRaises(mock_data)
    /\ mock_analysis' = analyze(mock_data)
    /\ last' = "analyze"
    /\ UNCHANGED monitor_vars
    /\ UNCHANGED <<mock_data, feedback, feedback_history, engine_vars>>

AnalyzeError ==
    /\ last = "init"
    /\ AnalyzeRaises(mock_data)
    /\ last' = "analyze_error"
    /\ UNCHANGED monitor_vars
    /\ UNCHANGED <<mock_data, mock_analysis, feedback, feedback_history, engine_vars>>

NextAnalyzer == Analyze \/ AnalyzeError

SpecAnalyzer == InitAnalyzer /\ [][NextAnalyzer]_vars


(***************************************************************************)
(* Properties of the analyzer                                              *)
(***************************************************************************)
Analyzed == mock_analysis # EmptyDict

Productive == Flag(mock_analysis, "productivity_detected")

Distracted == Flag(mock_analysis, "distraction_detected")

Active == Flag(mock_analysis, "input_active")

Static == Flag(mock_analysis, "screen_static")

Dark == Flag(mock_analysis, "screen_dark")

\* the doubles nearest 0.6, 0.7, 0.8 and 0.9
F0_6 == [neg |-> FALSE, hi |-> 161061273, lo |-> 161061272]

F0_7 == [neg |-> FALSE, hi |-> 187904819, lo |-> 53687088]

F0_8 == [neg |-> FALSE, hi |-> 214748364, lo |-> 214748368]

F0_9 == [neg |-> FALSE, hi |-> 241591910, lo |-> 107374184]

\* the double nearest n/10, for n in 0..10
Tenth(n) ==
    IF n = 0 THEN F0_0
    ELSE <<F0_1, F0_2, F0_3, F0_4, F0_5, F0_6, F0_7, F0_8, F0_9, F1_0>>[n]

\* ten times 0.5 + 0.3*productivity + 0.2*input_active + 0.1*(not static)
\*           - 0.4*distraction - 0.2*dark - 0.1*static, clamped to [0, 10]
ScoreTenths ==
    LET raw == 5 + (IF Productive THEN 3 ELSE 0) + (IF Active THEN 2 ELSE 0)
                 + (IF ~Static THEN 1 ELSE 0) - (IF Distracted THEN 4 ELSE 0)
                 - (IF Dark THEN 2 ELSE 0) - (IF Static THEN 1 ELSE 0)
    IN  IF raw < 0 THEN 0 ELSE IF raw > 10 THEN 10 ELSE raw

\* |x - y| <= units * 2^-56, for non-negative floats
FWithin(x, y, units) ==
    LET d == IF MagLess(MagOf(x), MagOf(y)) THEN MagSub(MagOf(y), MagOf(x))
                                             ELSE MagSub(MagOf(x), MagOf(y))
    IN  ~x.neg /\ ~y.neg /\ d.hi = 0 /\ d.lo <= units

DistractionAlone == Distracted /\ ~Productive /\ ~Active /\ ~Static /\ ~Dark

C2_NeedsFeedback ==
    Analyzed =>
        (mock_analysis.needs_feedback
            <=> \/ FLess(mock_analysis.focus_score, F0_3)
                \/ Distracted
                \/ (Static /\ ~Active))

C2_Witness ==
    /\ Analyzed
    /\ mock_analysis.needs_feedback
    /\ ~Distracted
    /\ ~FLess(mock_analysis.focus_score, F0_3)

\* C5: screen_dark iff brightness < 50 (50 itself is not dark), and
\* screen_static = not change_detected.
C5_ScreenFlags ==
    (Analyzed /\ Truthy(mock_data.screen) /\ Truthy(mock_data.screen.analysis)) =>
        /\ mock_analysis.screen_dark = (mock_data.screen.analysis.brightness < 50)
        /\ mock_analysis.screen_static = ~mock_data.screen.analysis.change_detected

C5_Witness ==
    /\ Analyzed
    /\ Truthy(mock_data.screen)
    /\ Truthy(mock_data.screen.analysis)
    /\ mock_data.screen.analysis.brightness = 50
    /\ ~mock_analysis.screen_dark
    /\ mock_analysis.screen_static


(***************************************************************************)
(* The feedback engine on its own: generate_feedback() applied to a        *)
(* hand-made analysis record, as test_feedback_engine (src/test_vivi.py)   *)
(* does.  Any key of the record may be missing.                            *)
(***************************************************************************)
\* the doubles 0.29 and 0.19999999999999998 (the double just below 0.2)
F0_29 == [neg |-> FALSE, hi |-> 77846282, lo |-> 64424508]

F0_2_pred == [neg |-> FALSE, hi |-> 53687091, lo |-> 53687090]

ScoreSamples == {F0_1, F0_2_pred, F0_2, F0_29, F0_3, F0_5}

\* a key that is missing or holds one of the values
Optional(k, values) == {EmptyDict} \cup {Entry(k, v) : v \in values}

MockAnalyses ==
    {d @@ f @@ st @@ ia @@ rt :
        d  \in Optional("distraction_detected", BOOLEAN),
        f  \in Optional("focus_score", ScoreSamples),
        st \in Optional("screen_static", BOOLEAN),
        ia \in Optional("input_active", BOOLEAN),
        rt \in Optional("rapid_typing", BOOLEAN)}

InitFeedback ==
    /\ mock_data = EmptyDict
    /\ mock_analysis \in MockAnalyses
    /\ feedback = EmptyDict
    /\ feedback_history = <<>>
    /\ last = "init"
    /\ InitEngine
    /\ InitMonitors

GenerateFeedback ==
    /\ last = "init"
    /\ \E choice \in 1..MessagesPerType :
          feedback' = FeedbackRecord(mock_analysis, choice)
    /\ feedback_history' = StoreFeedback(feedback_history, feedback')
    /\ last' = "generate_feedback"
    /\ UNCHANGED monitor_vars
    /\ UNCHANGED <<mock_data, mock_analysis, engine_vars>>

NextFeedback == GenerateFeedback

SpecFeedback == InitFeedback /\ [][NextFeedback]_vars

(***************************************************************************)
(* Properties of the feedback engine                                       *)
(***************************************************************************)
Generated == last = "generate_feedback"

\* focus_score of the record, 0.5 when the key is missing
Score == IF Has(mock_analysis, "focus_score") THEN mock_analysis.focus_score ELSE F0_5

Idle == Static /\ ~Active

Rapid == Flag(mock_analysis, "rapid_typing")

\* C3: the feedback type is chosen by a strict first-match chain:
\* distraction_detected, then focus_score < 0.3, then screen_static and not
\* input_active, then rapid_typing, then general_encouragement.
C3_TypeChain ==
    Generated =>
        /\ Distracted => feedback.type = "distraction_alert"
        /\ (~Distracted /\ FLess(Score, F0_3)) => feedback.type = "focus_reminder"
        /\ (~Distracted /\ ~FLess(Score, F0_3) /\ Idle)
                => feedback.type = "inactivity_reminder"
        /\ (~Distracted /\ ~FLess(Score, F0_3) /\ ~Idle /\ Rapid)
                => feedback.type = "stress_alert"
        /\ (~Distracted /\ ~FLess(Score, F0_3) /\ ~Idle /\ ~Rapid)
                => feedback.type = "general_encouragement"

C3_Witness ==
    /\ Generated
    /\ Distracted
    /\ FLess(Score, F0_3)
    /\ feedback.type = "distraction_alert"

\* C4: priority is high if distraction_detected or focus_score < 0.2,
\* otherwise medium if rapid_typing, otherwise low; a focus_score of
\* exactly 0.2 without distraction is not high.
C4_Priority ==
    Generated =>
        /\ (Distracted \/ FLess(Score, F0_2)) <=> feedback.priority = "high"
        /\ (~Distracted /\ ~FLess(Score, F0_2) /\ Rapid)
                => feedback.priority = "medium"
        /\ (~Distracted /\ ~FLess(Score, F0_2) /\ ~Rapid)
                => feedback.priority = "low"

C4_Witness ==
    /\ Generated
    /\ ~Distracted
    /\ Score = F0_2
    /\ feedback.priority # "high"


(***************************************************************************)
(* The engine: start(), stop() and the worker threads running _main_loop   *)
(* (src/src/core/vivi_engine.py).  start() and stop() run on the caller's  *)
(* thread; every worker spawned by start() runs                            *)
(*     test:  while self.running            -> tick, or done               *)
(*     tick:  collect, analyze, feed back   -> sleep, or backoff on raise  *)
(*     sleep / backoff: time.sleep(1 / 5)   -> test                        *)
(* What the monitors return is the environment's choice.                   *)
(***************************************************************************)
\* a bundle that needs no feedback, one that shows a distraction, and one
\* whose process list holds an unreadable name
BundleWorking ==
    [screen |-> [analysis |-> [brightness |-> 128, change_detected |-> TRUE]],
     processes |-> <<[name |-> NameCode, pid |-> 1234]>>,
     window |-> [title |-> TitleVSCode, process_name |-> NameCode],
     input |-> <<[type |-> "key_press", timestamp |-> 0]>>]

BundleYouTube ==
    [screen |-> EmptyDict,
     processes |-> <<[name |-> NameChrome, pid |-> 5678]>>,
     window |-> [title |-> TitleYouTube, process_name |-> NameChrome],
     input |-> <<>>]

BundleUnreadable ==
    [screen |-> EmptyDict,
     processes |-> <<[name |-> NoneStr, pid |-> 4]>>,
     window |-> EmptyDict,
     input |-> <<>>]

EngineBundles == {BundleWorking, BundleYouTube, BundleUnreadable}

\* the draws of random.choice the engine loop is explored with
EngineChoices == {1}

\* analyze() tabulated over the bundles on which it returns
EngineAnalysis ==
    [d \in {b \in EngineBundles : ~AnalyzeRaises(b)} |-> analyze(d)]

\* the bundles on which analyze() raises
RaisingBundles == {b \in EngineBundles : AnalyzeRaises(b)}

\* the bundles whose analysis asks for feedback
FeedbackBundles == {d \in DOMAIN EngineAnalysis : EngineAnalysis[d].needs_feedback}

\* generate_feedback() tabulated over those bundles and the draws
EngineFeedback ==
    [d \in FeedbackBundles, choice \in EngineChoices |->
        FeedbackRecord(EngineAnalysis[d], choice)]

\* the record start() emits; its message is the one fixed welcome text
welcome_feedback ==
    [type |-> "welcome", message |-> <<"welcome", 1>>, priority |-> "low"]

\* InputMonitor.start_monitoring() when both listeners start
StartMonitoring ==
    IF is_monitoring
    THEN UNCHANGED <<is_monitoring, keyboard_listener, mouse_listener>>
    ELSE /\ is_monitoring' = TRUE
         /\ keyboard_listener' = "started"
         /\ mouse_listener' = "started"

\* start() past its guard: everything succeeds
StartOk ==
    /\ starts < MaxStarts
    /\ running' = TRUE
    /\ StartMonitoring
    /\ thread' = starts + 1
    /\ pc' = [pc EXCEPT ![starts + 1] = "test"]
    /\ emitted' = Append(emitted, welcome_feedback)
    /\ starts' = starts + 1
    /\ post_stop' = 0

\* start() past its guard: keyboard_listener.start() raises out of start()
StartListenerError ==
    /\ starts < MaxStarts
    /\ ~is_monitoring
    /\ running' = TRUE
    /\ is_monitoring' = TRUE
    /\ keyboard_listener' = "failed"
    /\ starts' = starts + 1
    /\ post_stop' = 0
    /\ UNCHANGED <<mouse_listener, thread, pc, emitted>>

\* start() past its guard: self.thread.start() raises out of start()
StartThreadError ==
    /\ starts < MaxStarts
    /\ running' = TRUE
    /\ StartMonitoring
    /\ thread' = starts + 1
    /\ pc' = [pc EXCEPT ![starts + 1] = "unstarted"]
    /\ starts' = starts + 1
    /\ post_stop' = 0
    /\ UNCHANGED emitted

StartBody == StartOk \/ StartListenerError \/ StartThreadError

\* as Start, without the guard on self.running
Start_unguarded ==
    /\ StartBody
    /\ last' = "start"
    /\ UNCHANGED monitor_vars
    /\ UNCHANGED <<mock_data, mock_analysis, feedback, feedback_history>>

Start ==
    /\ IF running THEN UNCHANGED engine_vars ELSE StartBody
    /\ last' = "start"
    /\ UNCHANGED monitor_vars
    /\ UNCHANGED <<mock_data, mock_analysis, feedback, feedback_history>>

\* InputMonitor.stop_monitoring()
StopMonitoring ==
    /\ is_monitoring' = FALSE
    /\ keyboard_listener' = "None"
    /\ mouse_listener' = "None"

Stop ==
    /\ IF ~running
       THEN UNCHANGED engine_vars
       ELSE /\ running' = FALSE
            /\ StopMonitoring
            /\ thread' = NoThread
            /\ post_stop' = 0
            /\ UNCHANGED <<pc, emitted, starts>>
    /\ last' = "stop"
    /\ UNCHANGED monitor_vars
    /\ UNCHANGED <<mock_data, mock_analysis, feedback, feedback_history>>

\* as WorkerTest, looping whatever the flag says
WorkerTest_forever(w) ==
    /\ pc[w] = "test"
    /\ pc' = [pc EXCEPT ![w] = "tick"]
    /\ last' = "worker"
    /\ UNCHANGED monitor_vars
    /\ UNCHANGED <<mock_data, mock_analysis, feedback, feedback_history, running, thread,
                   is_monitoring, keyboard_listener, mouse_listener, emitted,
                   starts, post_stop>>

\* while self.running
WorkerTest(w) ==
    /\ pc[w] = "test"
    /\ pc' = [pc EXCEPT ![w] = IF running THEN "tick" ELSE "done"]
    /\ last' = "worker"
    /\ UNCHANGED monitor_vars
    /\ UNCHANGED <<mock_data, mock_analysis, feedback, feedback_history, running, thread,
                   is_monitoring, keyboard_listener, mouse_listener, emitted,
                   starts, post_stop>>

\* a tick that raises nothing
WorkerTick(w) ==
    /\ pc[w] = "tick"
    /\ \E d \in DOMAIN EngineAnalysis :
          IF d \in FeedbackBundles
          THEN /\ Len(feedback_history) < MaxFeedback
               /\ \E choice \in EngineChoices :
                     /\ feedback_history' =
                           StoreFeedback(feedback_history, EngineFeedback[d, choice])
                     /\ emitted' = Append(emitted, EngineFeedback[d, choice])
               /\ post_stop' = IF running THEN post_stop ELSE post_stop + 1
          ELSE UNCHANGED <<feedback_history, emitted, post_stop>>
    /\ pc' = [pc EXCEPT ![w] = "sleep"]
    /\ last' = "worker"
    /\ UNCHANGED monitor_vars
    /\ UNCHANGED <<mock_data, mock_analysis, feedback, running, thread, is_monitoring,
                   keyboard_listener, mouse_listener, starts>>

\* _collect_data() raises: get_recent_input() scans a deque a listener
\* callback is appending to
TickCollectError(w) ==
    /\ pc[w] = "tick"
    /\ pc' = [pc EXCEPT ![w] = "backoff"]
    /\ last' = "worker"
    /\ UNCHANGED monitor_vars
    /\ UNCHANGED <<mock_data, mock_analysis, feedback, feedback_history, running, thread,
                   is_monitoring, keyboard_listener, mouse_listener, emitted,
                   starts, post_stop>>

\* as TickAnalyzeError, with the exception leaving _main_loop
TickAnalyzeError_fatal(w) ==
    /\ pc[w] = "tick"
    /\ RaisingBundles # {}
    /\ pc' = [pc EXCEPT ![w] = "done"]
    /\ last' = "worker"
    /\ UNCHANGED monitor_vars
    /\ UNCHANGED <<mock_data, mock_analysis, feedback, feedback_history, running, thread,
                   is_monitoring, keyboard_listener, mouse_listener, emitted,
                   starts, post_stop>>

\* analyze() raises
TickAnalyzeError(w) ==
    /\ pc[w] = "tick"
    /\ RaisingBundles # {}
    /\ pc' = [pc EXCEPT ![w] = "backoff"]
    /\ last' = "worker"
    /\ UNCHANGED monitor_vars
    /\ UNCHANGED <<mock_data, mock_analysis, feedback, feedback_history, running, thread,
                   is_monitoring, keyboard_listener, mouse_listener, emitted,
                   starts, post_stop>>

\* feedback_generated.emit() raises: the record is stored, not emitted
TickDeliverError(w) ==
    /\ pc[w] = "tick"
    /\ Len(feedback_history) < MaxFeedback
    /\ \E d \in FeedbackBundles, choice \in EngineChoices :
          feedback_history' =
              StoreFeedback(feedback_history, EngineFeedback[d, choice])
    /\ pc' = [pc EXCEPT ![w] = "backoff"]
    /\ last' = "worker"
    /\ UNCHANGED monitor_vars
    /\ UNCHANGED <<mock_data, mock_analysis, feedback, running, thread, is_monitoring,
                   keyboard_listener, mouse_listener, emitted, starts, post_stop>>

\* time.sleep(1) or time.sleep(5) returns
WorkerWake(w) ==
    /\ pc[w] \in {"sleep", "backoff"}
    /\ pc' = [pc EXCEPT ![w] = "test"]
    /\ last' = "worker"
    /\ UNCHANGED monitor_vars
    /\ UNCHANGED <<mock_data, mock_analysis, feedback, feedback_history, running, thread,
                   is_monitoring, keyboard_listener, mouse_listener, emitted,
                   starts, post_stop>>

WorkerStep(w) ==
    \/ WorkerTest(w)
    \/ WorkerTick(w)
    \/ TickCollectError(w)
    \/ TickAnalyzeError(w)
    \/ TickDeliverError(w)
    \/ WorkerWake(w)

Init ==
    /\ mock_data = EmptyDict
    /\ mock_analysis = EmptyDict
    /\ feedback = EmptyDict
    /\ feedback_history = <<>>
    /\ last = "init"
    /\ InitEngine
    /\ InitMonitors

Next ==
    \/ Start
    \/ Stop
    \/ \E w \in Workers : WorkerStep(w)

Spec == Init /\ [][Next]_vars

\* every live worker thread keeps being scheduled
LiveSpec == Spec /\ \A w \in Workers : WF_vars(WorkerStep(w))


(***************************************************************************)
(* Properties of the engine                                                *)
(***************************************************************************)
\* the worker has passed `while self.running` and is inside a tick
InTick(w) == pc[w] = "tick"

\* the worker thread is not executing: never started, or returned
Exited(w) == pc[w] \in {"unborn", "unstarted", "done"}

\* C6 as stated: at every moment at most one polling worker is executing
\* the engine loop; here, no two workers are inside a tick at once.
C6_OneWorker == Cardinality({w \in Workers : InTick(w)}) <= 1

\* C7: start() called while the engine is running changes nothing: not the
\* flag, the worker threads, the listeners, nor what was emitted or stored.
C7_StartNoop ==
    [][(running /\ last' = "start") =>
            /\ UNCHANGED <<running, thread, pc>>
            /\ UNCHANGED <<is_monitoring, keyboard_listener, mouse_listener>>
            /\ UNCHANGED <<emitted, feedback_history>>]_vars

\* a start() that found a worker already past its first loop test
C7_Witness ==
    /\ last = "start"
    /\ running
    /\ thread # NoThread
    /\ pc[thread] = "sleep"

\* C8: once stop() has cleared the flag and no start() sets it again, every
\* worker eventually leaves its loop.
C8_WorkerExits ==
    \A w \in Workers :
        (~running /\ ~Exited(w)) ~> (Exited(w) \/ running)

\* a worker that left its loop after stop()
C8_Witness ==
    /\ ~running
    /\ last = "worker"
    /\ \E w \in Workers : pc[w] = "done"

\* C9 as stated: after stop() and with no later start(), at most one
\* feedback record is emitted.
C9_OneTickAfterStop == ~running => post_stop <= 1

\* C10: an exception in a tick sends the worker to its backoff sleep and
\* leaves the running flag alone; a worker only ever leaves the loop at the
\* loop test with the flag cleared; and a worker backing off reaches
\* another tick unless the engine is stopped.
C10_TickErrorSurvived ==
    /\ [][\A w \in Workers :
            /\ (pc[w] = "tick" /\ pc'[w] = "backoff") => running' = running
            /\ (pc[w] = "tick" /\ pc'[w] # "tick") => pc'[w] \in {"sleep", "backoff"}
            /\ (pc[w] = "backoff" /\ pc'[w] # "backoff") => pc'[w] = "test"
            /\ (pc[w] # "done" /\ pc'[w] = "done") => (pc[w] = "test" /\ ~running)]_vars
    /\ \A w \in Workers :
            (pc[w] = "backoff") ~> (pc[w] = "tick" \/ ~running)

\* a worker backing off from a failed tick while the engine runs
C10_Witness ==
    /\ running
    /\ \E w \in Workers : pc[w] = "backoff"

\* the types _generate_message holds messages for
FeedbackTypes ==
    {"distraction_alert", "focus_reminder", "inactivity_reminder",
     "stress_alert", "general_encouragement"}

\* the record was built by generate_feedback() for a tick whose analysis
\* had needs_feedback set
BySelector(record) ==
    \E d \in FeedbackBundles, choice \in EngineChoices :
        record = EngineFeedback[d, choice]

\* C11 as stated: every record handed to the presentation layer was built
\* by generate_feedback() for a tick that needed feedback, and its type is
\* one of the five feedback types.
C11_EmittedBySelector ==
    \A i \in DOMAIN emitted :
        /\ emitted[i].type \in FeedbackTypes
        /\ BySelector(emitted[i])


(***************************************************************************)
(* The input monitor on its own: the listener callbacks and                *)
(* get_recent_input(), each run to completion                              *)
(* (src/src/core/monitors/input_monitor.py).  Every call of time.time()    *)
(* reads later than the one before.                                        *)
(***************************************************************************)
\* listener callbacks and polls explored
MaxInputCalls == 3

\* how much later time.time() reads, in milliseconds
ClockSteps == {5000, 15000}

Readings == {now + dt : dt \in ClockSteps}

\* where the pointer is reported
Positions == {<<5, 5>>, <<100, 5>>, <<100, 30>>}

\* get_recent_input() as _collect_data calls it
RecentWindows == {10}

\* a handler that records its event whatever the buffer holds
Record(event_type) ==
    /\ calls < MaxInputCalls
    /\ \E t \in Readings :
          /\ input_history' =
                _add_input_event(input_history, event_type, t, EmptyDict)
          /\ now' = t
    /\ calls' = calls + 1
    /\ UNCHANGED <<recent_input, cursor, scan, move_pending>>
    /\ UNCHANGED <<core_vars, task_vars, process_vars, screen_vars, produced,
                 history_result>>

_on_key_press ==
    /\ Record("key_press")
    /\ last' = "key_press"

_on_key_release ==
    /\ Record("key_release")
    /\ last' = "key_release"

_on_mouse_click ==
    /\ \E pressed \in BOOLEAN :
          Record(IF pressed THEN "mouse_press" ELSE "mouse_release")
    /\ last' = "mouse_click"

_on_mouse_scroll ==
    /\ Record("mouse_scroll")
    /\ last' = "mouse_scroll"

_on_mouse_move ==
    /\ calls < MaxInputCalls
    /\ \E p \in Positions :
          /\ cursor' = [x |-> p[1], y |-> p[2]]
          /\ IF SignificantMove(input_history, p[1], p[2])
             THEN \E t \in Readings :
                     /\ input_history' =
                           _add_input_event(input_history, "mouse_move", t,
                                            [x |-> p[1], y |-> p[2]])
                     /\ now' = t
             ELSE UNCHANGED <<input_history, now>>
    /\ calls' = calls + 1
    /\ last' = "mouse_move"
    /\ UNCHANGED <<recent_input, scan, move_pending>>
    /\ UNCHANGED <<core_vars, task_vars, process_vars, screen_vars, produced,
                 history_result>>

\* get_recent_input(seconds), the scan uninterrupted
GetRecentInput ==
    /\ calls < MaxInputCalls
    /\ \E seconds \in RecentWindows, t \in Readings :
          /\ recent_input' =
                [seconds |-> seconds,
                 events |-> get_recent_input(input_history, t, seconds)]
          /\ now' = t
    /\ calls' = calls + 1
    /\ last' = "get_recent_input"
    /\ UNCHANGED <<input_history, cursor, scan, move_pending>>
    /\ UNCHANGED <<core_vars, task_vars, process_vars, screen_vars, produced,
                 history_result>>

Callbacks ==
    \/ _on_key_press
    \/ _on_key_release
    \/ _on_mouse_click
    \/ _on_mouse_scroll
    \/ _on_mouse_move

InitInput ==
    /\ mock_data = EmptyDict
    /\ mock_analysis = EmptyDict
    /\ feedback = EmptyDict
    /\ feedback_history = <<>>
    /\ last = "init"
    /\ InitEngine
    /\ InitMonitors

NextInput == Callbacks \/ GetRecentInput

SpecInput == InitInput /\ [][NextInput]_vars

\* a buffer two events short of full: what 998 key events a millisecond
\* apart leave behind
NearlyFull ==
    [i \in 1..(input_max_history - 2) |->
        [type |-> IF i % 2 = 1 THEN "key_press" ELSE "key_release",
         timestamp |-> i]]

InitFifo ==
    /\ mock_data = EmptyDict
    /\ mock_analysis = EmptyDict
    /\ feedback = EmptyDict
    /\ feedback_history = <<>>
    /\ last = "init"
    /\ InitEngine
    /\ InitTasks
    /\ InitProcessMonitor
    /\ InitScreenMonitor
    /\ produced = <<>>
    /\ history_result = NoResult
    /\ input_history = NearlyFull
    /\ now = Len(NearlyFull)
    /\ recent_input = NoResult
    /\ cursor = NoResult
    /\ scan = NoScan
    /\ move_pending = NoResult
    /\ calls = 0

NextFifo == Callbacks

SpecFifo == InitFifo /\ [][NextFifo]_vars


(***************************************************************************)
(* Properties of the input monitor                                         *)
(***************************************************************************)
\* C12: the buffer never holds more than 1000 events, and a callback that
\* records an event appends it as the newest; when the buffer is full it
\* drops exactly the oldest event and keeps the others in arrival order.
C12_FifoBounded ==
    /\ [](Len(input_history) <= input_max_history)
    /\ [][input_history' # input_history =>
            /\ input_history'[Len(input_history')].timestamp = now'
            /\ IF Len(input_history) = input_max_history
               THEN /\ Len(input_history') = input_max_history
                    /\ SubSeq(input_history', 1, input_max_history - 1)
                          = Tail(input_history)
               ELSE /\ Len(input_history') = Len(input_history) + 1
                    /\ SubSeq(input_history', 1, Len(input_history))
                          = input_history]_vars

\* the 1001st event has arrived: the buffer is full and lost its oldest
C12_Witness ==
    /\ calls = 3
    /\ Len(input_history) = input_max_history
    /\ input_history[1] = NearlyFull[2]
    /\ input_history[input_max_history].timestamp = now

\* the positions of the buffered events no older than the window of the
\* last get_recent_input() call
RecentIndexes ==
    {i \in DOMAIN input_history :
        input_history[i].timestamp >= now - recent_input.seconds * Second}

\* C13: get_recent_input(w) returns exactly the buffered events with
\* timestamp >= now - w, in buffer order, and leaves the buffer unchanged.
C13_RecentInput ==
    /\ [](last = "get_recent_input" =>
            /\ Len(recent_input.events) = Cardinality(RecentIndexes)
            /\ \A i \in RecentIndexes :
                  recent_input.events[Cardinality({j \in RecentIndexes : j <= i})]
                      = input_history[i])
    /\ [][last' = "get_recent_input" => input_history' = input_history]_vars

\* events at now - 20 s and now - 5 s: get_recent_input(10) returns only
\* the second
C13_Witness ==
    /\ last = "get_recent_input"
    /\ recent_input.seconds = 10
    /\ Len(input_history) = 2
    /\ input_history[1].timestamp = now - 20 * Second
    /\ input_history[2].timestamp = now - 5 * Second
    /\ recent_input.events = <<input_history[2]>>

\* the positions of the recorded mouse_move events
MoveIndexes(dq) == {i \in DOMAIN dq : dq[i].type = "mouse_move"}

\* the last recorded mouse_move event
LastMove(dq) ==
    dq[CHOOSE i \in MoveIndexes(dq) : \A j \in MoveIndexes(dq) : j <= i]

\* C19 as stated: a mouse-move callback at (x, y) records an event iff no
\* move has been recorded yet or x or y is more than 10 away from the
\* position of the last recorded mouse_move event, whatever other events
\* were recorded in between.
C19_MoveThrottle ==
    [][last' = "mouse_move" =>
        ((input_history' # input_history)
            <=> \/ MoveIndexes(input_history) = {}
                \/ Abs(cursor'.x - LastMove(input_history).x) > MoveThreshold
                \/ Abs(cursor'.y - LastMove(input_history).y) > MoveThreshold)]_vars


(***************************************************************************)
(* The task list: add_task() and get_tasks()                               *)
(* (src/src/core/vivi_engine.py).  A list in the caller's hands is the     *)
(* record [alias, items]: alias says whether it is the very list object    *)
(* the engine holds, so that a change by the caller reaches user_tasks.    *)
(***************************************************************************)
\* add_task() calls explored
MaxTasks == 3

\* the strings the presentation layer adds
Tasks == {"x", "y"}

\* what the caller may append to a list it was handed
CallerItems == {"z"}

\* get_tasks(); first as `return self.user_tasks`
get_tasks_shared(tasks) == [alias |-> TRUE, items |-> tasks]

get_tasks(tasks) == [alias |-> FALSE, items |-> tasks]

\* the caller holds the engine's own list object
IsAlias(lst) == Has(lst, "alias") /\ lst.alias

AddTask ==
    /\ Len(user_tasks) < MaxTasks
    /\ \E task \in Tasks : user_tasks' = Append(user_tasks, task)
    /\ returned' = IF IsAlias(returned)
                   THEN [returned EXCEPT !.items = user_tasks']
                   ELSE returned
    /\ last' = "add_task"
    /\ UNCHANGED <<core_vars, input_vars, process_vars, screen_vars, produced,
                 history_result>>

GetTasks ==
    /\ returned' = get_tasks(user_tasks)
    /\ last' = "get_tasks"
    /\ UNCHANGED user_tasks
    /\ UNCHANGED <<core_vars, input_vars, process_vars, screen_vars, produced,
                 history_result>>

\* the caller appends to, or clears, the list get_tasks() handed it
CallerChanges ==
    /\ returned # NoResult
    /\ \/ /\ Len(returned.items) <= MaxTasks
          /\ \E item \in CallerItems :
                returned' = [returned EXCEPT !.items = Append(@, item)]
       \/ /\ returned.items # <<>>
          /\ returned' = [returned EXCEPT !.items = <<>>]
    /\ user_tasks' = IF IsAlias(returned) THEN returned'.items ELSE user_tasks
    /\ last' = "caller"
    /\ UNCHANGED <<core_vars, input_vars, process_vars, screen_vars, produced,
                 history_result>>

InitTaskList ==
    /\ mock_data = EmptyDict
    /\ mock_analysis = EmptyDict
    /\ feedback = EmptyDict
    /\ feedback_history = <<>>
    /\ last = "init"
    /\ InitEngine
    /\ InitMonitors

NextTasks == AddTask \/ GetTasks \/ CallerChanges

SpecTasks == InitTaskList /\ [][NextTasks]_vars

(***************************************************************************)
(* Properties of the task list                                             *)
(***************************************************************************)
\* how often a task occurs in a list
Count(task, lst) == Cardinality({i \in DOMAIN lst : lst[i] = task})

\* C14: add_task(x) appends exactly one occurrence of x and nothing else
\* changes the task list: tasks are never removed or reordered.  Every
\* get_tasks() returns the task list as it is and leaves it alone, so a
\* call right after add_task(x) shows the new x exactly once and repeated
\* calls return the same sequence.  A change the caller makes to a
\* returned list does not reach the task list.
C14_TaskRoundTrip ==
    /\ [][user_tasks' # user_tasks =>
            /\ last' = "add_task"
            /\ \E task \in Tasks :
                  /\ user_tasks' = Append(user_tasks, task)
                  /\ Count(task, user_tasks') = Count(task, user_tasks) + 1]_vars
    /\ [][last' = "get_tasks" =>
            /\ returned'.items = user_tasks
            /\ user_tasks' = user_tasks]_vars
    /\ [][last' = "caller" =>
            /\ user_tasks' = user_tasks
            /\ returned'.items # returned.items]_vars

\* get_tasks() after add_task("y") and add_task("x") shows "x" once
C14_Witness ==
    /\ last = "get_tasks"
    /\ user_tasks = <<"y", "x">>
    /\ returned.items = <<"y", "x">>
    /\ Count("x", returned.items) = 1


(***************************************************************************)
(* The feedback history: generate_feedback() called again and again        *)
(* (src/src/core/ai/feedback_engine.py).  produced logs every record       *)
(* built, so that what the history kept can be compared with it.           *)
(***************************************************************************)
\* generate_feedback() calls explored on top of the initial history
MaxGenerate == 3

\* a distraction, a low focus score, rapid typing
HistoryAnalyses ==
    <<Entry("distraction_detected", TRUE) @@ Entry("focus_score", F0_1),
      Entry("focus_score", F0_29),
      Entry("rapid_typing", TRUE) @@ Entry("focus_score", F0_5)>>

\* generate_feedback(analysis) when random.choice draws choice
generate_feedback(a, choice) ==
    /\ feedback' = FeedbackRecord(a, choice)
    /\ feedback_history' = StoreFeedback(feedback_history, feedback')
    /\ produced' = Append(produced, feedback')
    /\ last' = "generate_feedback"
    /\ UNCHANGED <<mock_data, engine_vars, input_vars, task_vars, process_vars>>
    /\ UNCHANGED <<screen_vars, history_result>>

GenerateAgain ==
    /\ Len(produced) < max_history - 2 + MaxGenerate
    /\ \E i \in DOMAIN HistoryAnalyses, choice \in 1..MessagesPerType :
          /\ mock_analysis' = HistoryAnalyses[i]
          /\ generate_feedback(HistoryAnalyses[i], choice)

\* a history two records short of full: what 98 calls leave behind
NearlyFullHistory ==
    [n \in 1..(max_history - 2) |->
        FeedbackRecord(HistoryAnalyses[(n % 3) + 1], (n % MessagesPerType) + 1)]

InitHistory ==
    /\ mock_data = EmptyDict
    /\ mock_analysis = EmptyDict
    /\ feedback = EmptyDict
    /\ feedback_history = NearlyFullHistory
    /\ last = "init"
    /\ InitEngine
    /\ InitInputMonitor
    /\ InitTasks
    /\ InitProcessMonitor
    /\ InitScreenMonitor
    /\ produced = NearlyFullHistory
    /\ history_result = NoResult

NextHistory == GenerateAgain

SpecHistory == InitHistory /\ [][NextHistory]_vars

\* the last n elements of a sequence, all of it when it is shorter
LastN(lst, n) ==
    IF Len(lst) <= n THEN lst ELSE SubSeq(lst, Len(lst) - n + 1, Len(lst))

\* C15: the history never holds more than 100 records and always is the
\* most recently generated records in generation order; a call made when
\* 100 are stored drops exactly the oldest and stores the new record last.
C15_HistoryBounded ==
    /\ [](/\ Len(feedback_history) <= max_history
          /\ feedback_history = LastN(produced, max_history))
    /\ [][last' = "generate_feedback" =>
            feedback_history' =
                IF Len(feedback_history) = max_history
                THEN Append(Tail(feedback_history), feedback')
                ELSE Append(feedback_history, feedback')]_vars

\* the 101st record was generated: the oldest one is gone
C15_Witness ==
    /\ Len(produced) = max_history + 1
    /\ Len(feedback_history) = max_history
    /\ feedback_history[1] = produced[2]
    /\ feedback_history[1] # produced[1]
    /\ feedback_history[max_history] = feedback


(***************************************************************************)
(* analyze() followed by generate_feedback() on the record it returned,    *)
(* as one tick of _main_loop chains them (src/src/core/vivi_engine.py).    *)
(***************************************************************************)
GenerateAnalyzed ==
    /\ last = "analyze"
    /\ \E choice \in 1..MessagesPerType :
          generate_feedback(mock_analysis, choice)
    /\ UNCHANGED mock_analysis

NextPipeline == Analyze \/ AnalyzeError \/ GenerateAnalyzed

SpecPipeline == InitAnalyzer /\ [][NextPipeline]_vars

\* analyze() returned for the bundle
Returned == last \in {"analyze", "generate_feedback"}

\* the foreground window is "YouTube - Chrome" and chrome.exe is among the
\* processes
YouTubeBundle ==
    /\ Truthy(mock_data.window)
    /\ mock_data.window.title = TitleYouTube
    /\ \E i \in DOMAIN mock_data.processes :
          mock_data.processes[i].name = NameChrome

EmptyBundle ==
    /\ ~Truthy(mock_data.screen)
    /\ mock_data.processes = <<>>
    /\ ~Truthy(mock_data.window)
    /\ mock_data.input = <<>>

\* C17: analyze() returns for the empty bundle, with every detection flag
\* false or missing, focus_score 0.5 + 0.1 = 0.6 and needs_feedback false;
\* and whenever analyze() raises on a bundle without screen sample or
\* without window, it is a process name that could not be read.
C17_EmptyBundle ==
    /\ (EmptyBundle /\ last # "init") =>
          /\ last = "analyze"
          /\ \A k \in {"distraction_detected", "productivity_detected",
                       "input_active", "screen_static", "screen_dark",
                       "rapid_typing"} : ~Flag(mock_analysis, k)
          /\ mock_analysis.focus_score = F0_6
          /\ mock_analysis.focus_score = FAdd(F0_5, F0_1)
          /\ mock_analysis.needs_feedback = FALSE
    /\ (last = "analyze_error"
            /\ (~Truthy(mock_data.screen) \/ ~Truthy(mock_data.window))) =>
          \E i \in DOMAIN mock_data.processes :
              mock_data.processes[i].name = NoneStr

\* the empty bundle, analyzed
C17_Witness ==
    /\ EmptyBundle
    /\ last = "analyze"
    /\ mock_analysis.focus_score = F0_6
    /\ ~mock_analysis.needs_feedback


(***************************************************************************)
(* The input monitor with its threads interleaved                          *)
(* (src/src/core/monitors/input_monitor.py): the poller inside the list    *)
(* comprehension of get_recent_input(), one event at a time; the keyboard  *)
(* listener thread; the mouse listener thread, which can be preempted      *)
(* between the test of _on_mouse_move and its append.  No lock is taken    *)
(* anywhere.  A deque iterator raises RuntimeError at its next step once   *)
(* the deque was appended to.                                              *)
(***************************************************************************)
\* the scan as another thread's deque.append leaves it
Interleave(sc) ==
    IF sc.status = "scanning" THEN [sc EXCEPT !.changed = TRUE] ELSE sc

\* a move that passed its test as another thread's append leaves it
Overtake(mp) ==
    IF mp = NoResult THEN mp ELSE [mp EXCEPT !.stale = TRUE]

\* get_recent_input(): the clock is read and the iterator created
ScanBegin ==
    /\ scan.status # "scanning"
    /\ calls < MaxInputCalls
    /\ \E seconds \in RecentWindows, t \in Readings :
          /\ scan' = [status |-> "scanning",
                      seconds |-> seconds,
                      cutoff_time |-> t - seconds * Second,
                      position |-> 0,
                      events |-> <<>>,
                      changed |-> FALSE]
          /\ now' = t
    /\ calls' = calls + 1
    /\ last' = "scan"
    /\ UNCHANGED <<input_history, recent_input, cursor, move_pending>>
    /\ UNCHANGED <<core_vars, task_vars, process_vars, screen_vars, produced,
                 history_result>>

\* one step of the iterator: raise, finish, or test the next event
ScanStep ==
    /\ scan.status = "scanning"
    /\ IF scan.changed
       THEN /\ scan' = [scan EXCEPT !.status = "raised"]
            /\ UNCHANGED recent_input
       ELSE IF scan.position = Len(input_history)
       THEN /\ scan' = [scan EXCEPT !.status = "returned"]
            /\ recent_input' = [seconds |-> scan.seconds, events |-> scan.events]
       ELSE /\ scan' = [scan EXCEPT
                          !.position = @ + 1,
                          !.events =
                              IF input_history[scan.position + 1].timestamp
                                    >= scan.cutoff_time
                              THEN Append(@, input_history[scan.position + 1])
                              ELSE @]
            /\ UNCHANGED recent_input
    /\ last' = "scan"
    /\ UNCHANGED <<input_history, now, cursor, move_pending, calls>>
    /\ UNCHANGED <<core_vars, task_vars, process_vars, screen_vars, produced,
                 history_result>>

\* the keyboard listener thread runs _on_key_press
KeyThreadAppend ==
    /\ calls < MaxInputCalls
    /\ \E t \in Readings :
          /\ input_history' =
                _add_input_event(input_history, "key_press", t, EmptyDict)
          /\ now' = t
    /\ scan' = Interleave(scan)
    /\ move_pending' = Overtake(move_pending)
    /\ calls' = calls + 1
    /\ last' = "key_press"
    /\ UNCHANGED <<recent_input, cursor>>
    /\ UNCHANGED <<core_vars, task_vars, process_vars, screen_vars, produced,
                 history_result>>

\* the mouse listener thread evaluates the condition of _on_mouse_move
MouseThreadTest ==
    /\ move_pending = NoResult
    /\ calls < MaxInputCalls
    /\ \E p \in Positions :
          /\ cursor' = [x |-> p[1], y |-> p[2]]
          /\ move_pending' =
                IF SignificantMove(input_history, p[1], p[2])
                THEN [x |-> p[1], y |-> p[2], stale |-> FALSE]
                ELSE NoResult
    /\ calls' = calls + 1
    /\ last' = "mouse_move_test"
    /\ UNCHANGED <<input_history, now, recent_input, scan>>
    /\ UNCHANGED <<core_vars, task_vars, process_vars, screen_vars, produced,
                 history_result>>

\* the mouse listener thread goes on to _add_input_event
MouseThreadAppend ==
    /\ move_pending # NoResult
    /\ \E t \in Readings :
          /\ input_history' =
                _add_input_event(input_history, "mouse_move", t,
                                 [x |-> move_pending.x, y |-> move_pending.y])
          /\ now' = t
    /\ scan' = Interleave(scan)
    /\ move_pending' = NoResult
    /\ last' = "mouse_move"
    /\ UNCHANGED <<recent_input, cursor, calls>>
    /\ UNCHANGED <<core_vars, task_vars, process_vars, screen_vars, produced,
                 history_result>>

NextRace ==
    \/ ScanBegin
    \/ ScanStep
    \/ KeyThreadAppend
    \/ MouseThreadTest
    \/ MouseThreadAppend

SpecRace == InitInput /\ [][NextRace]_vars

\* C18 as stated: no append happens while a scan is under way or between
\* the throttle test of a move and its append, and no scan fails because
\* the buffer changed during it.
C18_Synchronized ==
    /\ scan.status # "raised"
    /\ ~(scan.status = "scanning" /\ scan.changed)
    /\ ~(move_pending # NoResult /\ move_pending.stale)


(***************************************************************************)
(* ProcessMonitor.get_process_changes()                                    *)
(* (src/src/core/monitors/process_monitor.py).  A dict keyed by pid is the *)
(* sequence of its values in insertion order.  Of a process record only    *)
(* pid and name are kept, and process_history is left out: it is written   *)
(* and never read.                                                         *)
(***************************************************************************)
\* get_process_changes() calls explored
MaxProcessCalls == 3

ProcCode == [pid |-> 1, name |-> NameCode]

ProcChrome == [pid |-> 2, name |-> NameChrome]

ProcNotepad == [pid |-> 3, name |-> NameNotepad]

\* pid 3 taken over by another program
ProcUnity == [pid |-> 3, name |-> NameUnity]

\* what get_active_processes() can return: process_iter() yields each pid
\* once, in ascending order
ProcessSnapshots ==
    {<<>>, <<ProcCode>>, <<ProcChrome>>, <<ProcUnity>>,
     <<ProcCode, ProcChrome>>, <<ProcCode, ProcNotepad>>,
     <<ProcChrome, ProcNotepad>>,
     <<ProcCode, ProcChrome, ProcNotepad>>,
     <<ProcCode, ProcChrome, ProcUnity>>}

\* pid in dict
HasPid(procs, pid) == \E i \in DOMAIN procs : procs[i].pid = pid

\* dict[p['pid']] = p
PutByPid(procs, p) ==
    IF HasPid(procs, p.pid)
    THEN [i \in DOMAIN procs |-> IF procs[i].pid = p.pid THEN p ELSE procs[i]]
    ELSE Append(procs, p)

RECURSIVE DictByPid(_, _)
\* {p['pid']: p for p in snapshot}, built onto procs
DictByPid(procs, snapshot) ==
    IF snapshot = <<>> THEN procs
    ELSE DictByPid(PutByPid(procs, Head(snapshot)), Tail(snapshot))

\* what get_process_changes() returns when get_active_processes()
\* returned snapshot and last_processes was previous
ProcessChanges(previous, snapshot) ==
    LET current_processes == DictByPid(<<>>, snapshot)
        new_processes ==
            SelectSeq(current_processes, LAMBDA p : ~HasPid(previous, p.pid))
        terminated_processes ==
            SelectSeq(previous, LAMBDA p : ~HasPid(current_processes, p.pid))
    IN  [snapshot |-> snapshot,
         new_processes |-> new_processes,
         terminated_processes |-> terminated_processes,
         total_processes |-> Len(current_processes)]

\* get_process_changes(); first without the update of last_processes
get_process_changes_stale ==
    /\ calls < MaxProcessCalls
    /\ \E snapshot \in ProcessSnapshots :
          /\ process_changes' = ProcessChanges(last_processes, snapshot)
          /\ last_processes' = last_processes
    /\ calls' = calls + 1
    /\ last' = "get_process_changes"
    /\ UNCHANGED <<input_history, now, recent_input, cursor, scan, move_pending>>
    /\ UNCHANGED <<core_vars, task_vars, screen_vars, produced, history_result>>

get_process_changes ==
    /\ calls < MaxProcessCalls
    /\ \E snapshot \in ProcessSnapshots :
          /\ process_changes' = ProcessChanges(last_processes, snapshot)
          /\ last_processes' = DictByPid(<<>>, snapshot)
    /\ calls' = calls + 1
    /\ last' = "get_process_changes"
    /\ UNCHANGED <<input_history, now, recent_input, cursor, scan, move_pending>>
    /\ UNCHANGED <<core_vars, task_vars, screen_vars, produced, history_result>>

NextProcess == get_process_changes

SpecProcess == InitInput /\ [][NextProcess]_vars

(***************************************************************************)
(* Properties of the process monitor                                       *)
(***************************************************************************)
Pids(procs) == {procs[i].pid : i \in DOMAIN procs}

Elems(procs) == {procs[i] : i \in DOMAIN procs}

\* C20: get_process_changes() reports as new the processes of the current
\* snapshot whose pid is not in the retained mapping and as terminated the
\* retained processes whose pid is not in the snapshot, each once and
\* never a pid in both; it then retains the snapshot, so that a call over
\* an unchanged set of pids reports nothing new and nothing terminated.
C20_ProcessChanges ==
    [][last' = "get_process_changes" =>
        LET snapshot == process_changes'.snapshot
            new == process_changes'.new_processes
            terminated == process_changes'.terminated_processes
        IN  /\ Elems(new) =
                  {p \in Elems(snapshot) : p.pid \notin Pids(last_processes)}
            /\ Elems(terminated) =
                  {p \in Elems(last_processes) : p.pid \notin Pids(snapshot)}
            /\ Len(new) = Cardinality(Pids(new))
            /\ Len(terminated) = Cardinality(Pids(terminated))
            /\ Pids(new) \cap Pids(terminated) = {}
            /\ last_processes' = snapshot
            /\ Pids(snapshot) = Pids(last_processes) =>
                  (new = <<>> /\ terminated = <<>>)]_vars

\* a second call over the same three processes: nothing to report
C20_Witness ==
    /\ last = "get_process_changes"
    /\ calls >= 2
    /\ process_changes.snapshot = <<ProcCode, ProcChrome, ProcNotepad>>
    /\ last_processes = process_changes.snapshot
    /\ process_changes.new_processes = <<>>
    /\ process_changes.terminated_processes = <<>>

(***************************************************************************)
(* The screen monitor on its own: capture_screen() applied to the frames   *)
(* the screenshot library hands over                                       *)
(* (src/src/core/monitors/screen_monitor.py).  A frame is its shape        *)
(* (height, width, channels) and its pixels row by row, each pixel a       *)
(* triple of 8-bit channel values.  captured logs every frame a capture    *)
(* appended.  The timestamps of the history entries and the brightness     *)
(* and contrast of the analysis, which depend on the new frame alone and   *)
(* are not read by capture_screen(), are left out.                         *)
(***************************************************************************)
\* capture_screen() calls explored
MaxCaptures == 3

\* self.max_history = 10
screen_max_history == 10

\* change_detected = np.mean(diff) > 10
ChangeThreshold == 10

\* one pixel through cv2.COLOR_RGB2GRAY on 8-bit channels: the weights
\* 0.299, 0.587, 0.114 in 15-bit fixed point, rounded to nearest
GrayPixel(px) ==
    (9798 * px[1] + 19235 * px[2] + 3735 * px[3] + 16384) \div 32768

\* cv2.cvtColor(image, cv2.COLOR_RGB2GRAY)
cvtColor(img) == [i \in DOMAIN img.pixels |-> GrayPixel(img.pixels[i])]

\* cv2.absdiff(a, b) on two gray frames of one shape
absdiff(a, b) == [i \in DOMAIN a |-> Abs(a[i] - b[i])]

RECURSIVE Total(_)
\* the sum np.mean() divides by the number of pixels
Total(values) ==
    IF values = <<>> THEN 0 ELSE Head(values) + Total(Tail(values))

\* np.mean(values) > threshold: the sum of at most 2^53 / 255 bytes is
\* exact in a double and the quotient is rounded monotonically, so the
\* comparison is the one between the integers
MeanAbove(values, threshold) == Total(values) > threshold * Len(values)

\* the same with the threshold itself counted as a change
MeanAtLeast(values, threshold) == Total(values) >= threshold * Len(values)

\* _analyze_screenshot(image) with self.screenshot_history = history;
\* first with >= in place of >
_analyze_screenshot_ge(history, img) ==
    LET gray == cvtColor(img)
        prev_image == history[Len(history) - 1].image
    IN  [change_detected |->
            /\ Len(history) > 1
            /\ prev_image.shape = img.shape
            /\ MeanAtLeast(absdiff(gray, cvtColor(prev_image)),
                           ChangeThreshold),
         dimensions |-> img.shape]

_analyze_screenshot(history, img) ==
    LET gray == cvtColor(img)
        prev_image == history[Len(history) - 1].image
    IN  [change_detected |->
            /\ Len(history) > 1
            /\ prev_image.shape = img.shape
            /\ MeanAbove(absdiff(gray, cvtColor(prev_image)),
                         ChangeThreshold),
         dimensions |-> img.shape]

\* self.screenshot_history.append({...}) and the pop(0) that follows it
AppendScreenshot(history, img) ==
    LET appended == Append(history, [image |-> img])
    IN  IF Len(appended) > screen_max_history THEN Tail(appended)
        ELSE appended

\* two-pixel frames: black; gray 10, whose mean difference to black is the
\* threshold itself; one pixel of gray 22, whose mean difference to black
\* is 11; blue 80, which is gray 9; and a bright frame of another shape
FrameBlack == [shape |-> <<1, 2, 3>>, pixels |-> <<<<0, 0, 0>>, <<0, 0, 0>>>>]

FrameDim ==
    [shape |-> <<1, 2, 3>>, pixels |-> <<<<10, 10, 10>>, <<10, 10, 10>>>>]

FrameHalf ==
    [shape |-> <<1, 2, 3>>, pixels |-> <<<<22, 22, 22>>, <<0, 0, 0>>>>]

FrameBlue ==
    [shape |-> <<1, 2, 3>>, pixels |-> <<<<0, 0, 80>>, <<0, 0, 80>>>>]

FrameTall ==
    [shape |-> <<2, 1, 3>>,
     pixels |-> <<<<200, 200, 200>>, <<200, 200, 200>>>>]

\* what ImageGrab.grab() can hand over
Frames == {FrameBlack, FrameDim, FrameHalf, FrameBlue, FrameTall}

\* capture_screen() when the grab succeeds
CaptureOk ==
    /\ calls < MaxCaptures
    /\ \E img \in Frames :
          LET history == AppendScreenshot(screenshot_history, img)
          IN  /\ last_screenshot' = img
              /\ screenshot_history' = history
              /\ screen_result' =
                    [status |-> "ok",
                     image |-> img,
                     analysis |-> _analyze_screenshot(history, img)]
              /\ captured' = Append(captured, img)
    /\ calls' = calls + 1
    /\ last' = "capture_screen"
    /\ UNCHANGED <<input_history, now, recent_input, cursor, scan, move_pending>>
    /\ UNCHANGED <<core_vars, task_vars, process_vars, produced, history_result>>

\* capture_screen() when no screenshot library is available or the grab
\* raises: None is returned and nothing is stored
CaptureAbsent ==
    /\ calls < MaxCaptures
    /\ screen_result' = [status |-> "absent"]
    /\ calls' = calls + 1
    /\ last' = "capture_screen"
    /\ UNCHANGED <<screenshot_history, last_screenshot, captured>>
    /\ UNCHANGED <<input_history, now, recent_input, cursor, scan, move_pending>>
    /\ UNCHANGED <<core_vars, task_vars, process_vars, produced, history_result>>

capture_screen == CaptureOk \/ CaptureAbsent

\* a history two frames short of full: what eight captures leave behind
NearlyFullScreen ==
    [i \in 1..(screen_max_history - 2) |->
        IF i % 2 = 1 THEN FrameBlack ELSE FrameHalf]

InitScreen ==
    /\ mock_data = EmptyDict
    /\ mock_analysis = EmptyDict
    /\ feedback = EmptyDict
    /\ feedback_history = <<>>
    /\ last = "init"
    /\ InitEngine
    /\ InitInputMonitor
    /\ InitTasks
    /\ InitProcessMonitor
    /\ captured \in {<<>>, NearlyFullScreen}
    /\ screenshot_history = [i \in DOMAIN captured |-> [image |-> captured[i]]]
    /\ last_screenshot =
          IF captured = <<>> THEN NoFrame ELSE captured[Len(captured)]
    /\ screen_result = NoResult
    /\ produced = <<>>
    /\ history_result = NoResult

NextScreen == capture_screen

SpecScreen == InitScreen /\ [][NextScreen]_vars

(***************************************************************************)
(* Properties of the screen monitor                                        *)
(***************************************************************************)
\* the pixel positions of a frame
PixelIndexes(img) == DOMAIN img.pixels

\* the absolute gray differences of two frames of one shape, position by
\* position
GrayDifferences(a, b) ==
    [i \in PixelIndexes(a) |->
        Abs(GrayPixel(a.pixels[i]) - GrayPixel(b.pixels[i]))]

NeedsFeedback_always(analysis) == TRUE

NeedsFeedback(analysis) == Flag(analysis, "needs_feedback")

\* the tick finds that feedback is needed, generates and delivers it
TickFeedback ==
    /\ last = "init"
    /\ ~AnalyzeRaises(mock_data)
    /\ NeedsFeedback(analyze(mock_data))
    /\ mock_analysis' = analyze(mock_data)
    /\ \E choice \in 1..MessagesPerType :
          /\ feedback' = FeedbackRecord(analyze(mock_data), choice)
          /\ feedback_history' = StoreFeedback(feedback_history, feedback')
          /\ produced' = Append(produced, feedback')
          /\ emitted' = Append(emitted, feedback')
    /\ last' = "tick"
    /\ UNCHANGED <<mock_data, running, thread, pc, is_monitoring,
                   keyboard_listener, mouse_listener, starts, post_stop>>
    /\ UNCHANGED <<input_vars, task_vars, process_vars, screen_vars,
                   history_result>>

\* the tick finds that no feedback is needed
TickNoFeedback ==
    /\ last = "init"
    /\ ~AnalyzeRaises(mock_data)
    /\ ~NeedsFeedback(analyze(mock_data))
    /\ mock_analysis' = analyze(mock_data)
    /\ last' = "tick"
    /\ UNCHANGED monitor_vars
    /\ UNCHANGED <<mock_data, feedback, feedback_history, engine_vars>>

\* analyze() raises: the tick ends in the except clause
TickRaises ==
    /\ last = "init"
    /\ AnalyzeRaises(mock_data)
    /\ last' = "tick_error"
    /\ UNCHANGED monitor_vars
    /\ UNCHANGED <<mock_data, mock_analysis, feedback, feedback_history, engine_vars>>

NextTick == TickFeedback \/ TickNoFeedback \/ TickRaises

SpecTick == InitAnalyzer /\ [][NextTick]_vars

(***************************************************************************)
(* Properties of the tick                                                  *)
(***************************************************************************)
TickTypes == {"distraction_alert", "focus_reminder", "inactivity_reminder"}

\* C22: every record a tick generates has type distraction_alert,
\* focus_reminder or inactivity_reminder: the tick calls the selector only
\* for an analysis with needs_feedback, so stress_alert and
\* general_encouragement are never generated, stored or emitted by a tick.
C22_TickTypes ==
    /\ \A i \in DOMAIN produced : produced[i].type \in TickTypes
    /\ \A i \in DOMAIN emitted : emitted[i].type \in TickTypes
    /\ \A i \in DOMAIN feedback_history : feedback_history[i].type \in TickTypes
    /\ (last = "tick" /\ emitted = <<>>) =>
          _determine_feedback_type(mock_analysis) \notin TickTypes

\* a tick over rapid typing at a distracting window generates a record,
\* and it is a distraction_alert
C22_Witness ==
    /\ last = "tick"
    /\ Flag(mock_analysis, "rapid_typing")
    /\ Len(emitted) = 1
    /\ emitted[1].type = "distraction_alert"
    /\ produced = emitted

(***************************************************************************)
(* Properties of start() and stop() (src/src/core/vivi_engine.py,          *)
(* src/src/core/monitors/input_monitor.py).  Both run on the GUI thread    *)
(* and are one step each here, so no state has a call in progress.         *)
(***************************************************************************)
\* both listeners attached and a polling worker spawned
Attached ==
    /\ is_monitoring
    /\ keyboard_listener = "started"
    /\ mouse_listener = "started"
    /\ thread # NoThread
    /\ pc[thread] # "unstarted"

\* C23: outside start() and stop(), running is true exactly when the input
\* listeners are attached and a polling worker has been spawned, also
\* after a start() in which attaching a listener or spawning the worker
\* raised.
C23_RunningIffAttached == running <=> Attached

(***************************************************************************)
(* get_feedback_history() on its own (src/src/core/ai/feedback_engine.py), *)
(* between calls of generate_feedback(), from an empty history and from    *)
(* one of 98 records.                                                      *)
(***************************************************************************)
\* the limits get_feedback_history() is called with; 10 is the default
Limits == {0, 1, 3, 10, 100, 150}

\* lst[start:] for a start <= 0: a negative start counts from the end and
\* is clamped to the beginning, and -0 is 0, the beginning
SliceFrom(lst, start) ==
    LET first == IF start < 0
                 THEN (IF Len(lst) + start < 0 THEN 0 ELSE Len(lst) + start)
                 ELSE start
    IN  SubSeq(lst, first + 1, Len(lst))

\* self.feedback_history[-limit:] if self.feedback_history else []
get_feedback_history(history, limit) ==
    IF history # <<>> THEN SliceFrom(history, 0 - limit) ELSE <<>>

GetFeedbackHistory ==
    /\ \E limit \in Limits :
          history_result' =
              [status |-> "ok",
               limit |-> limit,
               records |-> get_feedback_history(feedback_history, limit)]
    /\ last' = "get_feedback_history"
    /\ UNCHANGED <<core_vars, input_vars, task_vars, process_vars, screen_vars,
                   produced>>

\* generate_feedback() on one of the sample analyses, first message drawn
GenerateQueried ==
    /\ calls < MaxGenerate
    /\ \E i \in DOMAIN HistoryAnalyses :
          /\ mock_analysis' = HistoryAnalyses[i]
          /\ feedback' = FeedbackRecord(HistoryAnalyses[i], 1)
    /\ feedback_history' = StoreFeedback(feedback_history, feedback')
    /\ produced' = Append(produced, feedback')
    /\ calls' = calls + 1
    /\ last' = "generate_feedback"
    /\ UNCHANGED <<input_history, now, recent_input, cursor, scan, move_pending>>
    /\ UNCHANGED <<mock_data, engine_vars, task_vars, process_vars, screen_vars,
                   history_result>>

InitQuery ==
    /\ mock_data = EmptyDict
    /\ mock_analysis = EmptyDict
    /\ feedback = EmptyDict
    /\ produced \in {<<>>, NearlyFullHistory}
    /\ feedback_history = produced
    /\ last = "init"
    /\ InitEngine
    /\ InitInputMonitor
    /\ InitTasks
    /\ InitProcessMonitor
    /\ InitScreenMonitor
    /\ history_result = NoResult

NextQuery == GetFeedbackHistory \/ GenerateQueried

SpecQuery == InitQuery /\ [][NextQuery]_vars

(***************************************************************************)
(* Properties of get_feedback_history()                                    *)
(***************************************************************************)
\* C24: get_feedback_history(limit) with limit >= 0 returns at most limit
\* records, and they are the most recently generated records in the order
\* of their generation; with limit = 0 it returns none.
C24_HistoryLimit ==
    last = "get_feedback_history" =>
        /\ Len(history_result.records) <= history_result.limit
        /\ history_result.records =
              LastN(produced, Len(history_result.records))
        /\ history_result.limit = 0 => history_result.records = <<>>

====
